---- MODULE Spec2Model ----
(***************************************************************************)
(* Model of src/script.py: the incremental Comtrade ingestion pipeline.    *)
(*                                                                         *)
(* Python strings are modelled as sequences of ASCII codes, so that        *)
(* str.strip, len, sorted, ",".join and the substring test `"403" in s`    *)
(* are computed the way Python computes them.  Python ints stay integers   *)
(* and str(int) is IntToStr.                                               *)
(***************************************************************************)
EXTENDS Integers, Sequences, FiniteSets, TLC

(* ------------------------------ bounds --------------------------------- *)
\* number of times the process (main) is started against the same store
MaxRuns == 2
\* number of years a run may cover (end_year - start_year + 1)
MaxYears == 2
\* number of raw records a partial API response carries
MaxRows == 1
\* number of rows the store has room for; a write beyond it is rejected
MaxStore == 3
\* process calls made on one processor
MaxBatches == 1

(* ------------------------- string literals ----------------------------- *)
WLD == <<87,76,68>>                      \* 'WLD'
ALL == <<65,76,76>>                      \* 'ALL'
ZERO == <<48>>                           \* '0'
IDN == <<73,68,78>>                      \* 'IDN'
CHN == <<67,72,78>>                      \* 'CHN'
XKX == <<88,75,88>>                      \* 'XKX'
M360 == <<51,54,48>>                     \* '360'
M156 == <<49,53,54>>                     \* '156'
M412 == <<52,49,50>>                     \* '412'
NOT_FOUND == <<110,111,116,32,102,111,117,110,100>>  \* 'not found'
NONE_STR == <<78,111,110,101>>           \* 'None'
H6 == <<72,54>>                          \* 'H6'
MSG_403 == <<52,48,51,32,81,117,111,116,97,32,69,120,99,101,101,100,101,100>>  \* '403 Quota Exceeded'
MSG_HTTP == <<72,84,84,80,32,102,97,105,108,101,100,58>>  \* 'HTTP failed:'
MSG_NET == <<78,101,116,119,111,114,107,32,70,97,105,108,101,100,58,32>>  \* 'Network Failed: '
MSG_JSON == <<73,110,118,97,108,105,100,32,74,83,79,78,32,82,101,115,112,111,110,115,101>>  \* 'Invalid JSON Response'
MSG_API == <<65,80,73,32,69,114,114,111,114,32,109,101,115,115,97,103,101,58,32>>  \* 'API Error message: '
BASE_URL == <<104,116,116,112,115,58,47,47,99,111,109,116,114,97,100,101,97,112,105,46,117,110,46,111,114,103,47,112,117,98,108,105,99,47,118,49,47,103,101,116,68,65,47,67,47,65,47,72,83>>  \* 'https://comtradeapi.un.org/public/v1/getDA/C/A/HS'
URL_PATH == <<47,112,117,98,108,105,99,47,118,49,47,103,101,116,68,65,47,67,47,65,47,72,83>>  \* '/public/v1/getDA/C/A/HS'
Q_REPORTER == <<114,101,112,111,114,116,101,114,67,111,100,101,61>>  \* 'reporterCode='
Q_PERIOD == <<38,112,101,114,105,111,100,61>>  \* '&period='
Q_CMD == <<38,99,109,100,67,111,100,101,61>>  \* '&cmdCode='
Q_TAIL == <<38,102,111,114,109,97,116,61,106,115,111,110,38,102,114,101,113,67,111,100,101,61,65,38,105,110,99,108,117,100,101,68,101,115,99,61,102,97,108,115,101,38,102,108,111,119,67,111,100,101,61,77,37,50,67,88>>  \* '&format=json&freqCode=A&includeDesc=false&flowCode=M%2CX'
Q_PARTNER == <<38,112,97,114,116,110,101,114,67,111,100,101,61>>  \* '&partnerCode='
\* requests' HTTPError text: '<status> Client Error: <reason> for url: <url>'
CLIENT_ERROR == <<32,67,108,105,101,110,116,32,69,114,114,111,114,58,32>>  \* ' Client Error: '
FOR_URL == <<32,102,111,114,32,117,114,108,58,32>>  \* ' for url: '
\* urllib3's MaxRetryError text, which requests' RetryError/ConnectionError carry
POOL == <<72,84,84,80,83,67,111,110,110,101,99,116,105,111,110,80,111,111,108,40,104,111,115,116,61,39,99,111,109,116,114,97,100,101,97,112,105,46,117,110,46,111,114,103,39,44,32,112,111,114,116,61,52,52,51,41,58,32,77,97,120,32,114,101,116,114,105,101,115,32,101,120,99,101,101,100,101,100,32,119,105,116,104,32,117,114,108,58,32>>  \* "HTTPSConnectionPool(host='comtradeapi.un.org', port=443): Max retries exceeded with url: "
JSON_TEXT == <<69,120,112,101,99,116,105,110,103,32,118,97,108,117,101,58,32,108,105,110,101,32,49,32,99,111,108,117,109,110,32,49,32,40,99,104,97,114,32,48,41>>  \* 'Expecting value: line 1 column 1 (char 0)'
\* two embedded error texts the remote API may put in the body's error field
ERR_BAD == <<105,110,118,97,108,105,100,32,112,101,114,105,111,100>>  \* 'invalid period'
ERR_403 == <<99,111,100,101,32,52,48,51>>  \* 'code 403'

\* Python's None, and "the call raised": control characters no text contains
None == <<0>>
Raises == <<1>>

(* ----------------------- Python string built-ins ----------------------- *)
IsSpace(c) == c \in {32, 9, 10, 11, 12, 13}

RECURSIVE LStrip(_)
LStrip(s) == IF s # <<>> /\ IsSpace(Head(s)) THEN LStrip(Tail(s)) ELSE s

RECURSIVE RStrip(_)
RStrip(s) == IF s # <<>> /\ IsSpace(s[Len(s)]) THEN RStrip(SubSeq(s, 1, Len(s) - 1)) ELSE s

\* str.strip()
Strip(s) == RStrip(LStrip(s))

\* str(n) for a non-negative int
RECURSIVE IntToStr(_)
IntToStr(n) == IF n < 10 THEN <<48 + n>> ELSE IntToStr(n \div 10) \o <<48 + (n % 10)>>

\* SQLite's INTEGER affinity applied to a text operand made of digits
RECURSIVE StrToInt(_)
StrToInt(s) == IF s = <<>> THEN 0 ELSE 10 * StrToInt(SubSeq(s, 1, Len(s) - 1)) + (s[Len(s)] - 48)

\* str(v) where v is a str or None
StrOf(v) == IF v = None THEN NONE_STR ELSE v

\* sub in s
Contains(s, sub) ==
    \E k \in 1..(Len(s) - Len(sub) + 1) : \A j \in 1..Len(sub) : s[k + j - 1] = sub[j]

\* a < b for Python strings: lexicographic by code point
RECURSIVE StrLess(_, _)
StrLess(a, b) ==
    IF b = <<>> THEN FALSE
    ELSE IF a = <<>> THEN TRUE
    ELSE IF Head(a) # Head(b) THEN Head(a) < Head(b)
    ELSE StrLess(Tail(a), Tail(b))

\* sorted(list(S)) for a set of strings
RECURSIVE Sorted(_)
Sorted(S) ==
    IF S = {} THEN <<>>
    ELSE LET m == CHOOSE x \in S : \A y \in S \ {x} : StrLess(x, y)
         IN <<m>> \o Sorted(S \ {m})

\* sep.join(list)
RECURSIVE Join(_, _)
Join(sep, l) ==
    IF l = <<>> THEN <<>>
    ELSE IF Len(l) = 1 THEN l[1]
    ELSE l[1] \o sep \o Join(sep, Tail(l))

\* str(list) of a list of strings: "['360', '156']"
ListRepr(l) == <<91>> \o Join(<<44, 32>>, [k \in 1..Len(l) |-> <<39>> \o l[k] \o <<39>>]) \o <<93>>

(* ------------------- the external reference (coco) --------------------- *)
\* country_converter's table as this model sees it: IDN and CHN map one-to-one,
\* XKX maps forward only, anything else is the library's 'not found'.
CocoLibrary ==
    [ISO3 |-> [k \in {IDN, CHN, XKX} |-> IF k = IDN THEN M360 ELSE IF k = CHN THEN M156 ELSE M412],
     UNCode |-> [k \in {M360, M156} |-> IF k = M360 THEN IDN ELSE CHN]]

\* the same reference, raising on CHN/156 and on WLD
CocoRaising ==
    [ISO3 |-> [k \in {IDN, CHN, WLD} |-> IF k = IDN THEN M360 ELSE Raises],
     UNCode |-> [k \in {M360, M156} |-> IF k = M360 THEN IDN ELSE Raises]]

CocoTables == {CocoLibrary, CocoRaising}

\* coco.convert(names = key, src = src, to = ...): the answer, NOT_FOUND, or Raises
convert(table, key, src) ==
    IF key \in DOMAIN table[src] THEN table[src][key] ELSE NOT_FOUND

\* x has a valid one-to-one mapping in the reference
ValidMapping(table, x) ==
    /\ convert(table, x, "ISO3") \notin {NOT_FOUND, Raises}
    /\ convert(table, convert(table, x, "ISO3"), "UNCode") = x

(* ------------------------ CountryCodeConverter ------------------------- *)
\* a lookup that raised is not remembered
to_m49ForgetsFailure(cache, table, key) ==
    IF key \in DOMAIN cache THEN [ret |-> cache[key], cache |-> cache, asked |-> FALSE]
    ELSE IF key = ALL THEN [ret |-> ALL, cache |-> cache, asked |-> FALSE]
    ELSE LET r == convert(table, key, "ISO3")
         IN IF r = Raises THEN [ret |-> None, cache |-> cache, asked |-> TRUE]
            ELSE [ret |-> r, cache |-> (key :> r) @@ cache, asked |-> TRUE]

\* to_m49 on an already stripped key; asked = the reference was consulted
to_m49(cache, table, key) ==
    IF key \in DOMAIN cache THEN [ret |-> cache[key], cache |-> cache, asked |-> FALSE]
    ELSE IF key = ALL THEN [ret |-> ALL, cache |-> cache, asked |-> FALSE]
    ELSE \* the assignment result = '0' for 'WLD' is overwritten by this else branch
         LET r == convert(table, key, "ISO3")
             result == IF r = Raises THEN None ELSE r
         IN [ret |-> result, cache |-> (key :> result) @@ cache, asked |-> TRUE]

\* the comparison is >= instead of >
tooLongFrom3(result) == Len(result) >= 3

\* len(result) > 3
too_long(result) == Len(result) > 3

\* to_iso3 on an already stripped key
to_iso3(cache, table, key) ==
    IF key \in DOMAIN cache THEN [ret |-> cache[key], cache |-> cache, asked |-> FALSE]
    ELSE IF key = ZERO THEN [ret |-> WLD, cache |-> (key :> WLD) @@ cache, asked |-> FALSE]
    ELSE LET r == convert(table, key, "UNCode")
             result == IF r = Raises THEN key ELSE IF too_long(r) THEN key ELSE r
         IN [ret |-> result, cache |-> (key :> result) @@ cache, asked |-> TRUE]

(* ----------------------------- JSON input ------------------------------- *)
\* a JSON value of a type the schema's str field rejects (a number for cmdCode)
NotAStr == <<3>>
FLOW_M == <<77>>                         \* 'M'
FLOW_X == <<88>>                         \* 'X'
IMPORT == <<73,109,112,111,114,116>>     \* 'Import'
EXPORT == <<69,120,112,111,114,116>>     \* 'Export'
UNAUTHORIZED == <<85,110,97,117,116,104,111,114,105,122,101,100>>  \* 'Unauthorized'
NOT_FOUND_REASON == <<78,111,116,32,70,111,117,110,100>>  \* 'Not Found'
COMMA == <<44>>                          \* ','
PCT2C == <<37,50,67>>                    \* '%2C'

(* --------------------------- program constants ------------------------- *)
BATCH_SIZE == 10

(* ------------------------------- state --------------------------------- *)
VARIABLES
    coco,          \* the external reference's table (CountryConverter)
    reference,     \* what the reference catalog endpoint does
    args,          \* arguments main() passes to run
    run,           \* which start of the process this is
    pc,            \* position of JobOrchestrator.run
    all_hs_codes,  \* JobOrchestrator.all_hs_codes
    m49_cache,     \* CountryCodeConverter._m49_cache
    iso3_cache,    \* CountryCodeConverter._iso3_cache
    store,         \* committed rows of table trade, in id order
    r_code,        \* run's r_code list
    p_code,        \* run's p_code
    year,          \* run's loop variable year
    chunks,        \* run's chunks of the year
    i,             \* index of the batch being handled (1-based)
    fetches,       \* number of session.get calls fetch_annual_data issued in this run
    baseline,      \* number of committed rows when this run started
    gap,           \* what the latest gap detection found
    last,          \* what the latest batch iteration did
    call,          \* the latest direct call of the converter
    lookups        \* coco.convert calls made by direct calls of the converter, per direction and key

vars == <<coco, reference, args, run, pc, all_hs_codes, m49_cache, iso3_cache, store,
          r_code, p_code, year, chunks, i, fetches, baseline, gap, last, call, lookups>>

pipelineVars == <<reference, args, run, pc, all_hs_codes, store, r_code, p_code, year,
                  chunks, i, fetches, baseline, gap, last>>

EmptyCache == [k \in {} |-> None]
NoGap == [year |-> 0, queryOk |-> FALSE, existing |-> {}, target |-> <<>>]
NoLast == [kind |-> "none"]
NoCall == [fn |-> "none", arg |-> <<>>, ret |-> <<>>, asked |-> FALSE]
NoLookups == [k \in {} |-> 0]

\* one more call of coco.convert(names = key, src = src) when asked
Counted(log, asked, src, key) ==
    IF ~asked THEN log
    ELSE IF <<src, key>> \in DOMAIN log THEN [log EXCEPT ![<<src, key>>] = @ + 1]
    ELSE (<<src, key>> :> 1) @@ log

(* ------------------------- reference catalog --------------------------- *)
IsDigitStr(s) == s # <<>> /\ \A k \in 1..Len(s) : s[k] \in 48..57

\* sorted(l) for a list of strings
RECURSIVE SortedList(_)
SortedList(l) ==
    IF l = <<>> THEN <<>>
    ELSE LET k == CHOOSE a \in 1..Len(l) : \A b \in 1..Len(l) : ~StrLess(l[b], l[a])
         IN <<l[k]>> \o SortedList(SubSeq(l, 1, k - 1) \o SubSeq(l, k + 1, Len(l)))

\* what the reference endpoint did: answered with ids (already str), or failed
Answered(results) == [ok |-> TRUE, results |-> results]
Failed == [ok |-> FALSE, results |-> <<>>]

\* [str(i) for i in range(100, 9999) if len(str(i)) == 4]
fallback_hs4_codes == SelectSeq([k \in 1..9899 |-> IntToStr(99 + k)], LAMBDA c : Len(c) = 4)

\* _get_valid_hs4_codes
get_valid_hs4_codes(response) ==
    IF response.ok
    THEN SortedList(SelectSeq(response.results, LAMBDA id : IsDigitStr(id) /\ Len(id) = 4))
    ELSE fallback_hs4_codes

\* the 4-digit code of n, used to write down the endpoint's ids
HS(n) == <<48 + (n \div 1000), 48 + ((n \div 100) % 10), 48 + ((n \div 10) % 10), 48 + (n % 10)>>

\* ids the endpoint may return: none of them valid
NoValidIds == <<<<48,52>>, <<84,79,84,65,76>>>>          \* '04', 'TOTAL'

\* two valid ids among a chapter id and a 6-digit id, not in order
TwoValidIds == <<HS(102), <<48,49>>, HS(101), <<48,49,48,49,50,49>>>>

\* eleven valid ids, '0403' among them, in descending order
ElevenValidIds == [k \in 1..11 |-> HS(412 - k)]

(* ------------------------------- TradeModel ---------------------------- *)
\* a Python float as this model holds it: num / 10^scale, or an infinity
\* (num is its sign), or nan
Finite(num, scale) == [kind |-> "finite", num |-> num, scale |-> scale]
Infinity(sign) == [kind |-> "inf", num |-> sign, scale |-> 0]
NaN == [kind |-> "nan", num |-> 0, scale |-> 0]

\* 0.0, the default of qty, primaryValue and netWgt
ZeroFloat == Finite(0, 0)

\* the same float without trailing zeros in its fraction
RECURSIVE Reduced(_)
Reduced(x) ==
    IF x.kind = "finite" /\ x.scale > 0 /\ x.num % 10 = 0
    THEN Reduced(Finite(x.num \div 10, x.scale - 1)) ELSE x

RECURSIVE Pow10(_)
Pow10(n) == IF n = 0 THEN 1 ELSE 10 * Pow10(n - 1)

\* str.lower() on ASCII
Lower(s) == [k \in 1..Len(s) |-> IF s[k] \in 65..90 THEN s[k] + 32 ELSE s[k]]

\* s.find(c) + 1
Find(s, c) ==
    IF \E k \in 1..Len(s) : s[k] = c
    THEN CHOOSE k \in 1..Len(s) : s[k] = c /\ \A j \in 1..(k - 1) : s[j] # c
    ELSE 0

AllDigits(s) == \A k \in 1..Len(s) : s[k] \in 48..57

NULL_TEXT == <<110, 117, 108, 108>>               \* 'null'
NA_TEXT == <<110, 47, 97>>                        \* 'n/a'
NAN_TEXT == <<110, 97, 110>>                      \* 'nan'
INF_TEXT == <<105, 110, 102>>                     \* 'inf'
INFINITY_TEXT == <<105, 110, 102, 105, 110, 105, 116, 121>>   \* 'infinity'

\* the decimal forms of float(str): digits, a point, an exponent; a value of
\* more than 309 integer digits is an infinity
DecimalOfStr(body, sign) ==
    LET ePos == Find(body, 101)
        mant == IF ePos = 0 THEN body ELSE SubSeq(body, 1, ePos - 1)
        expo == IF ePos = 0 THEN <<>> ELSE SubSeq(body, ePos + 1, Len(body))
        eSigned == expo # <<>> /\ expo[1] \in {43, 45}
        eDigits == IF eSigned THEN Tail(expo) ELSE expo
        dPos == Find(mant, 46)
        ip == IF dPos = 0 THEN mant ELSE SubSeq(mant, 1, dPos - 1)
        fp == IF dPos = 0 THEN <<>> ELSE SubSeq(mant, dPos + 1, Len(mant))
        wellFormed == /\ AllDigits(ip) /\ AllDigits(fp) /\ Len(ip) + Len(fp) > 0
                      /\ ePos # 0 => (eDigits # <<>> /\ AllDigits(eDigits))
    IN IF ~wellFormed THEN [ok |-> FALSE, val |-> ZeroFloat]
       ELSE LET e == (IF eSigned /\ expo[1] = 45 THEN -1 ELSE 1) * StrToInt(eDigits)
                num == StrToInt(ip \o fp)
                scale == Len(fp) - e
            IN IF num # 0 /\ Len(IntToStr(num)) - scale > 309
               THEN [ok |-> TRUE, val |-> Infinity(sign)]
               ELSE IF scale < 0 THEN [ok |-> TRUE, val |-> Finite(sign * num * Pow10(0 - scale), 0)]
               ELSE [ok |-> TRUE, val |-> Reduced(Finite(sign * num, scale))]

\* float(s) for a str: ok = FALSE is ValueError
FloatOfStr(s) ==
    LET t == Lower(Strip(s))
        signed == t # <<>> /\ t[1] \in {43, 45}
        sign == IF signed /\ t[1] = 45 THEN -1 ELSE 1
        body == IF signed THEN Tail(t) ELSE t
    IN IF body \in {INF_TEXT, INFINITY_TEXT} THEN [ok |-> TRUE, val |-> Infinity(sign)]
       ELSE IF body = NAN_TEXT THEN [ok |-> TRUE, val |-> NaN]
       ELSE DecimalOfStr(body, sign)

\* int(x) for a float: ok = FALSE is OverflowError (inf) or ValueError (nan)
IntOfFloat(x) ==
    IF x.kind # "finite" THEN [ok |-> FALSE, val |-> 0]
    ELSE [ok |-> TRUE,
          val |-> IF x.num >= 0 THEN x.num \div Pow10(x.scale)
                  ELSE 0 - ((0 - x.num) \div Pow10(x.scale))]

\* the JSON values a numeric field may carry
JNull == [t |-> "null", s |-> <<>>, x |-> ZeroFloat]
JStr(s) == [t |-> "str", s |-> s, x |-> ZeroFloat]
JNum(x) == [t |-> "num", s |-> <<>>, x |-> x]
JList == [t |-> "list", s |-> <<>>, x |-> ZeroFloat]

\* try: return float(v); except ValueError: return 0.0
float_or_zero(parsed) == IF parsed.ok THEN parsed ELSE [ok |-> TRUE, val |-> ZeroFloat]

\* TradeModel.sanitize_nums: ok = FALSE when float(v) raises TypeError
sanitize_nums(v) ==
    IF v.t = "null" THEN [ok |-> TRUE, val |-> ZeroFloat]
    ELSE IF v.t = "str"
    THEN LET w == Strip(v.s)
         IN IF w = <<>> \/ Lower(w) \in {NULL_TEXT, NA_TEXT, NAN_TEXT}
            THEN [ok |-> TRUE, val |-> ZeroFloat]
            ELSE float_or_zero(FloatOfStr(w))
    ELSE IF v.t = "num" THEN [ok |-> TRUE, val |-> v.x]
    ELSE [ok |-> FALSE, val |-> ZeroFloat]

\* the defaults of TradeModel's fields
Defaults ==
    [reporterCode |-> 0, partnerCode |-> 0, refYear |-> 0, cmdCode |-> HS(0),
     flowCode |-> FLOW_X, classificationCode |-> None,
     qty |-> ZeroFloat, primaryValue |-> ZeroFloat, netWgt |-> ZeroFloat]

NumericFields == {"qty", "primaryValue", "netWgt"}

\* the validators of qty, primaryValue and netWgt, run on the fields present
validated_nums(raw_item) ==
    [f \in NumericFields |-> IF f \in DOMAIN raw_item THEN sanitize_nums(raw_item[f])
                             ELSE [ok |-> TRUE, val |-> Defaults[f]]]

\* the model instance: each field's value when present, its default otherwise
validated_model(raw_item, nums) ==
    LET value(f) == IF f \in DOMAIN raw_item THEN raw_item[f] ELSE Defaults[f]
    IN [ok |-> value("cmdCode") # NotAStr /\ \A f \in NumericFields : nums[f].ok,
        clean |-> [f \in DOMAIN Defaults |->
                     IF f \in NumericFields THEN nums[f].val ELSE value(f)]]

\* a field the record lacks fails validation instead of taking its default
WithoutDefaults(raw_item) ==
    IF DOMAIN Defaults \ NumericFields \subseteq DOMAIN raw_item
    THEN validated_model(raw_item, validated_nums(raw_item))
    ELSE [ok |-> FALSE, clean |-> Defaults]

\* TradeModel(**raw_item): ok = FALSE when the construction raises
TradeModel(raw_item) == validated_model(raw_item, validated_nums(raw_item))

(* --------------------------- TradeBatchProcessor ----------------------- *)
\* _transform, lines 296-327: the dict built from the clean model
transformed_row(clean, rep, part, vol_safe) ==
    IF ~vol_safe.ok THEN [some |-> FALSE, cache |-> part.cache]
    ELSE [some |-> TRUE,
          row |-> [kode_alpha3_reporter |-> rep.ret,
                   kode_alpha3_partner |-> part.ret,
                   tahun |-> clean.refYear,
                   hscode |-> clean.cmdCode,
                   id_sektor |-> clean.classificationCode,
                   vol |-> vol_safe.val,
                   nilai |-> clean.primaryValue,
                   status |-> IF clean.flowCode = FLOW_M THEN IMPORT ELSE EXPORT,
                   berat_bersih |-> clean.netWgt,
                   hs_len |-> Len(clean.cmdCode)],
          cache |-> part.cache]

\* _transform, lines 291-292: part_iso = to_iso3(clean.partnerCode), after rep_iso
transformed_partner(clean, rep, table) ==
    transformed_row(clean, rep, to_iso3(rep.cache, table, Strip(IntToStr(clean.partnerCode))),
                    IntOfFloat(clean.qty))

\* _transform, lines 288-291: the model was built, rep_iso = to_iso3(clean.reporterCode)
transformed_model(model, cache, table) ==
    IF ~model.ok THEN [some |-> FALSE, cache |-> cache]
    ELSE transformed_partner(model.clean,
                             to_iso3(cache, table, Strip(IntToStr(model.clean.reporterCode))), table)

\* _transform: the row, or no row (None) when anything in the try block raises
transform(raw_item, cache, table) == transformed_model(TradeModel(raw_item), cache, table)

\* a record that does not transform drops the records after it
appendedUntilFailure(t, rest) ==
    [payload |-> IF ~t.some THEN <<>> ELSE <<t.row>> \o rest.payload,
     cache |-> rest.cache]

\* payload.append(clean_data) when the record transformed
appended(t, rest) ==
    [payload |-> IF ~t.some THEN rest.payload ELSE <<t.row>> \o rest.payload,
     cache |-> rest.cache]

RECURSIVE batch_payload(_, _, _)
RECURSIVE payload_after(_, _, _)
\* one iteration of the loop: the record's transform t, then the other records
payload_after(t, others, table) == appended(t, batch_payload(others, t.cache, table))

\* the loop of process over raw_data_list: the payload and the cache it leaves
batch_payload(raw_data_list, cache, table) ==
    IF raw_data_list = <<>> THEN [payload |-> <<>>, cache |-> cache]
    ELSE payload_after(transform(Head(raw_data_list), cache, table), Tail(raw_data_list), table)

\* the write replaces the table instead of appending to it
commitOverwrites(committed, payload) == payload

\* session.bulk_insert_mappings + session.commit
commit(committed, payload) == committed \o payload

\* the rows already written survive the failed write
rollbackKeepsPending(committed, pending) == committed \o pending

\* session.rollback: pending = the rows the failed bulk insert had already written
rollback(committed, pending) == committed

\* process after its loop: the bulk write of the payload b left
bulk_write(b, total, committed, db, written) ==
    [store |-> IF b.payload = <<>> THEN committed
               ELSE IF db = "commit" THEN commit(committed, b.payload)
               ELSE rollback(committed, SubSeq(b.payload, 1, written)),
     cache |-> b.cache,
     payload |-> b.payload,
     total |-> total,
     success |-> IF b.payload # <<>> /\ db = "commit" THEN Len(b.payload) ELSE 0]

\* process: db = "commit", or "reject" after `written` rows of the payload
process(raw_data_list, committed, cache, table, db, written) ==
    bulk_write(batch_payload(raw_data_list, cache, table), Len(raw_data_list), committed, db, written)

(* ------------------------------ ComtradeClient ------------------------- *)
\* str.upper() on ASCII
Upper(s) == [k \in 1..Len(s) |-> IF s[k] \in 97..122 THEN s[k] - 32 ELSE s[k]]

\* requests' encoding of one query value: ',' becomes %2C and ' ' becomes +
RECURSIVE UrlEncode(_)
UrlEncode(s) ==
    IF s = <<>> THEN <<>>
    ELSE (IF Head(s) = 44 THEN PCT2C ELSE IF Head(s) = 32 THEN <<43>> ELSE <<Head(s)>>)
         \o UrlEncode(Tail(s))

\* the comparison with 'ALL' keeps the letter case
SendsPartnerExactCase(partner) == partner # None /\ partner # <<>> /\ partner # ALL

\* the partnerCode parameter is sent
SendsPartner(partner) == partner # None /\ partner # <<>> /\ Upper(partner) # ALL

\* the query string requests builds from params (a list value repeats its key)
Query(reporter, partner, hs_codes, year_str) ==
    Join(<<38>>, [k \in 1..Len(reporter) |-> Q_REPORTER \o UrlEncode(reporter[k])])
    \o Q_PERIOD \o UrlEncode(year_str)
    \o Q_CMD \o UrlEncode(hs_codes)
    \o Q_TAIL
    \o (IF SendsPartner(partner) THEN Q_PARTNER \o UrlEncode(partner) ELSE <<>>)

\* requests' reason phrase in HTTPError's text
Reason(status) == IF status = 401 THEN UNAUTHORIZED ELSE NOT_FOUND_REASON

\* the test is for the key's presence instead of a truthy value
errorValuePresent(resp) == resp.hasError

\* error_value = data.get('error') is truthy: present and not ''
error_value(resp) == resp.hasError /\ resp.error # <<>>

\* fetch_annual_data given the terminal outcome resp of session.get:
\* ok and the returned list, or the message of the ComtradeAPIError raised
fetch_annual_data(reporter, partner, hs_codes, year_str, resp) ==
    LET q == Query(reporter, partner, hs_codes, year_str)
        raise(m) == [ok |-> FALSE, ret |-> <<>>, msg |-> m]
    IN IF resp.kind \in {"network", "retry"}
       THEN \* requests.exceptions.RequestException from session.get
            raise(MSG_NET \o POOL \o URL_PATH \o <<63>> \o q)
       ELSE IF resp.status = 403 THEN raise(MSG_403)
       ELSE IF resp.status >= 400
       THEN \* raise_for_status, then except HTTPError
            raise(MSG_HTTP \o IntToStr(resp.status) \o CLIENT_ERROR \o Reason(resp.status)
                  \o FOR_URL \o BASE_URL \o <<63>> \o q)
       ELSE IF resp.json = "bad_request_exception"
       THEN \* requests.exceptions.JSONDecodeError is a RequestException
            raise(MSG_NET \o JSON_TEXT)
       ELSE IF resp.json = "bad_value_error"
       THEN \* a plain ValueError from older requests
            raise(MSG_JSON)
       ELSE IF error_value(resp)
       THEN raise(MSG_API \o resp.error)
       ELSE [ok |-> TRUE, ret |-> IF resp.hasData THEN resp.data ELSE <<>>, msg |-> <<>>]

\* the test looks for "429" instead
IsQuotaMessage429(msg) == Contains(msg, <<52, 50, 57>>)

\* the except clause of run: "403" in str(e)
IsQuotaMessage(msg) == Contains(msg, <<52, 48, 51>>)

(* ----------------------- what the remote API may answer ---------------- *)
Min(a, b) == IF a < b THEN a ELSE b

\* one record per requested code, for the first n codes of the batch
Rows(batch, reporter, year_str, n) ==
    [k \in 1..n |-> [reporterCode |-> StrToInt(reporter[1]), partnerCode |-> 0,
                     refYear |-> StrToInt(year_str), cmdCode |-> batch[k],
                     classificationCode |-> H6, flowCode |-> FLOW_M,
                     qty |-> JNum(Finite(10, 0)), primaryValue |-> JNum(Finite(425, 1)),
                     netWgt |-> JNull]]

\* a record whose cmdCode is a JSON number
BadRow(reporter, year_str) ==
    [reporterCode |-> StrToInt(reporter[1]), partnerCode |-> 0,
     refYear |-> StrToInt(year_str), cmdCode |-> NotAStr,
     classificationCode |-> H6, flowCode |-> FLOW_X,
     qty |-> JNum(Finite(10, 0)), primaryValue |-> JNum(Finite(425, 1)), netWgt |-> JNull]

Http(status) ==
    [kind |-> "http", status |-> status, json |-> "ok", hasError |-> FALSE, error |-> <<>>,
     hasData |-> FALSE, data |-> <<>>]

Body(hasError, error, hasData, data) ==
    [kind |-> "http", status |-> 200, json |-> "ok", hasError |-> hasError, error |-> error,
     hasData |-> hasData, data |-> data]

\* data arrays of a 200 body: rows for a prefix of the batch, for the whole
\* batch, and a bad record followed by a good one
DataChoices(batch, reporter, year_str) ==
    IF IsDigitStr(reporter[1])
    THEN {Rows(batch, reporter, year_str, n) : n \in (0..Min(MaxRows, Len(batch))) \cup {Len(batch)}}
         \cup {<<BadRow(reporter, year_str)>> \o Rows(batch, reporter, year_str, 1)}
    ELSE {<<>>}

Responses(batch, reporter, year_str) ==
    LET full == Rows(batch, reporter, year_str, IF IsDigitStr(reporter[1]) THEN Len(batch) ELSE 0)
    IN {Http(s) : s \in {401, 403, 404}}
       \cup {[Http(s) EXCEPT !.kind = "retry"] : s \in {429, 500}}
       \cup {[Http(0) EXCEPT !.kind = "network"]}
       \cup {[Http(200) EXCEPT !.json = j] : j \in {"bad_request_exception", "bad_value_error"}}
       \cup {Body(FALSE, <<>>, TRUE, d) : d \in DataChoices(batch, reporter, year_str)}
       \cup {Body(FALSE, <<>>, FALSE, <<>>), Body(TRUE, <<>>, TRUE, full)}
       \cup {Body(TRUE, e, TRUE, full) : e \in {ERR_BAD, ERR_403}}
       \cup {Body(TRUE, ERR_BAD, FALSE, <<>>)}

(* ------------------------------ JobOrchestrator ------------------------ *)
\* default of START_YEAR in main
START_YEAR == 2023

\* what main passes to run
Args(reporters_iso, partner_iso, end_year) ==
    [reporters_iso |-> reporters_iso, partner_iso |-> partner_iso,
     start_year |-> START_YEAR, end_year |-> end_year]

LastYear == START_YEAR + MaxYears - 1

\* the environments the pipeline is run in: the reference's table, the ids of
\* the catalog endpoint and the arguments of run
Scenarios ==
    {[coco |-> t, reference |-> Answered(TwoValidIds), args |-> Args(<<IDN>>, ALL, START_YEAR)] :
        t \in CocoTables}
    \cup {[coco |-> CocoLibrary, reference |-> Answered(TwoValidIds), args |-> Args(<<IDN>>, ALL, y)] :
        y \in START_YEAR..LastYear}
    \cup {[coco |-> CocoLibrary, reference |-> Answered(ElevenValidIds),
           args |-> Args(<<IDN>>, ALL, START_YEAR)]}
    \cup {[coco |-> CocoLibrary, reference |-> Answered(NoValidIds), args |-> Args(<<IDN>>, ALL, LastYear)]}
    \cup {[coco |-> t, reference |-> Answered(TwoValidIds), args |-> Args(<<IDN, CHN>>, WLD, START_YEAR)] :
        t \in CocoTables}
    \cup {[coco |-> CocoLibrary, reference |-> Failed, args |-> Args(<<IDN>>, ALL, START_YEAR - 1)]}

\* the loop that fills r_code: str(to_m49(r_iso)) for each reporter
RECURSIVE reporter_codes(_, _, _)
reporter_codes(reporters_iso, cache, table) ==
    IF reporters_iso = <<>> THEN [codes |-> <<>>, cache |-> cache]
    ELSE LET m == to_m49(cache, table, Strip(Head(reporters_iso)))
             rest == reporter_codes(Tail(reporters_iso), m.cache, table)
         IN [codes |-> <<StrOf(m.ret)>> \o rest.codes, cache |-> rest.cache]

\* a failed query answers with every stored hscode
existingStaleOnFailure(reporter, year_str, cache, table, committed, queryOk) ==
    LET iso == to_iso3(cache, table, Strip(ListRepr(reporter)))
        hits == {k \in 1..Len(committed) :
                    /\ committed[k].kode_alpha3_reporter = iso.ret
                    /\ committed[k].tahun = StrToInt(year_str)}
    IN [codes |-> IF queryOk THEN {committed[k].id_sektor : k \in hits}
                  ELSE {committed[k].hscode : k \in 1..Len(committed)},
        cache |-> iso.cache]

\* _get_existing_code: reporter is the r_code list run passes; queryOk = the
\* store answered.  The select reads column id_sektor.
get_existing_code(reporter, year_str, cache, table, committed, queryOk) ==
    LET iso == to_iso3(cache, table, Strip(ListRepr(reporter)))
        hits == {k \in 1..Len(committed) :
                    /\ committed[k].kode_alpha3_reporter = iso.ret
                    /\ committed[k].tahun = StrToInt(year_str)}
    IN [codes |-> IF queryOk THEN {committed[k].id_sektor : k \in hits} ELSE {},
        cache |-> iso.cache]

\* target_hs = sorted(list(set(self.all_hs_codes) - existing_hs))
target_hs(catalog, existing) == Sorted({catalog[k] : k \in 1..Len(catalog)} \ existing)

\* every slice runs one code into the next slice
ChunksOverlapping(l, n) ==
    [k \in 1..((Len(l) + n - 1) \div n) |-> SubSeq(l, (k - 1) * n + 1, Min(k * n + 1, Len(l)))]

\* chunks = [target_hs[i:i + BATCH_SIZE] for i in range(0, len(target_hs), BATCH_SIZE)]
Chunks(l, n) ==
    [k \in 1..((Len(l) + n - 1) \div n) |-> SubSeq(l, (k - 1) * n + 1, Min(k * n, Len(l)))]

Init ==
    /\ \E sc \in Scenarios :
         /\ coco = sc.coco
         /\ reference = sc.reference
         /\ args = sc.args
    /\ run = 1
    /\ pc = "start"
    /\ all_hs_codes = get_valid_hs4_codes(reference)
    /\ m49_cache = EmptyCache
    /\ iso3_cache = EmptyCache
    /\ store = <<>>
    /\ r_code = <<>>
    /\ p_code = None
    /\ year = args.start_year
    /\ chunks = <<>>
    /\ i = 0
    /\ fetches = 0
    /\ baseline = 0
    /\ gap = NoGap
    /\ last = NoLast
    /\ call = NoCall
    /\ lookups = NoLookups

\* run, lines 455-462: translate the reporters and the partner
RunStart ==
    /\ pc = "start"
    /\ LET r == reporter_codes(args.reporters_iso, m49_cache, coco)
           p == IF args.partner_iso # <<>>
                THEN to_m49(r.cache, coco, Strip(args.partner_iso))
                ELSE [ret |-> None, cache |-> r.cache, asked |-> FALSE]
       IN /\ r_code' = r.codes
          /\ p_code' = p.ret
          /\ m49_cache' = p.cache
    /\ year' = args.start_year
    /\ pc' = IF args.start_year > args.end_year THEN "done" ELSE "year"
    /\ UNCHANGED <<coco, reference, args, run, all_hs_codes, iso3_cache, store, chunks, i,
                   fetches, baseline, gap, last, call, lookups>>

\* the year loop moves on: the next year, or the end of run
NextYear ==
    /\ year' = year + 1
    /\ pc' = IF year + 1 > args.end_year THEN "done" ELSE "year"

\* the batch loop moves on: the next batch, or db_session.close() and the next year
NextBatch ==
    IF i < Len(chunks)
    THEN /\ i' = i + 1
         /\ UNCHANGED <<year, pc>>
    ELSE /\ i' = 0
         /\ NextYear

\* run, lines 464-476: the year's gap is empty, the year is skipped
YearSkip ==
    /\ pc = "year"
    /\ \E queryOk \in BOOLEAN :
         LET e == get_existing_code(r_code, IntToStr(year), iso3_cache, coco, store, queryOk)
         IN /\ target_hs(all_hs_codes, e.codes) = <<>>
            /\ iso3_cache' = e.cache
            /\ gap' = [year |-> year, queryOk |-> queryOk, existing |-> e.codes, target |-> <<>>]
    /\ NextYear
    /\ UNCHANGED <<coco, reference, args, run, all_hs_codes, m49_cache, store, r_code, p_code,
                   chunks, i, fetches, baseline, last, call, lookups>>

\* run, lines 464-486: the year's gap is split into batches
YearBatches ==
    /\ pc = "year"
    /\ \E queryOk \in BOOLEAN :
         LET e == get_existing_code(r_code, IntToStr(year), iso3_cache, coco, store, queryOk)
             t == target_hs(all_hs_codes, e.codes)
         IN /\ t # <<>>
            /\ iso3_cache' = e.cache
            /\ gap' = [year |-> year, queryOk |-> queryOk, existing |-> e.codes, target |-> t]
            /\ chunks' = Chunks(t, BATCH_SIZE)
    /\ i' = 1
    /\ pc' = "batch"
    /\ UNCHANGED <<coco, reference, args, run, all_hs_codes, m49_cache, store, r_code, p_code,
                   year, fetches, baseline, last, call, lookups>>

\* the record of one batch iteration; slept = time.sleep(1.5) was reached
Outcome(kind, resp, f, res, w, slept) ==
    [kind |-> kind, resp |-> resp, slept |-> slept, ok |-> f.ok, ret |-> f.ret, msg |-> f.msg,
     total |-> res.total, success |-> res.success, payload |-> res.payload, db |-> w.db, written |-> w.written,
     before |-> Len(store), year |-> year, batch |-> i, of |-> Len(chunks)]

NoResult == [total |-> 0, success |-> 0, payload |-> <<>>]
NoWrite == [db |-> "none", written |-> 0]

\* what the store does with a bulk write of n rows on top of `held` rows:
\* nothing to write, a commit when there is room, or a reject after some of
\* the rows were written
DbChoices(held, n) ==
    IF n = 0 THEN {[db |-> "none", written |-> 0]}
    ELSE (IF held + n <= MaxStore THEN {[db |-> "commit", written |-> n]} ELSE {})
         \cup {[db |-> "reject", written |-> k] : k \in 0..Min(n, MaxRows)}

\* run, lines 488-499: the fetch returned, the batch is processed
BatchFetched ==
    /\ pc = "batch"
    /\ \E resp \in Responses(chunks[i], r_code, IntToStr(year)) :
         LET f == fetch_annual_data(r_code, p_code, Join(COMMA, chunks[i]), IntToStr(year), resp)
         IN /\ f.ok
            /\ \E w \in DbChoices(Len(store), Len(batch_payload(f.ret, iso3_cache, coco).payload)) :
                 LET res == process(f.ret, store, iso3_cache, coco, w.db, w.written)
                 IN /\ store' = res.store
                    /\ iso3_cache' = res.cache
                    /\ last' = Outcome("fetched", resp, f, res, w, TRUE)
    /\ fetches' = fetches + 1
    /\ NextBatch
    /\ UNCHANGED <<coco, reference, args, run, all_hs_codes, m49_cache, r_code, p_code,
                   chunks, baseline, gap, call, lookups>>

\* run, lines 501-502: the fetch raised and the message has no "403"
BatchFailed ==
    /\ pc = "batch"
    /\ \E resp \in Responses(chunks[i], r_code, IntToStr(year)) :
         LET f == fetch_annual_data(r_code, p_code, Join(COMMA, chunks[i]), IntToStr(year), resp)
         IN /\ ~f.ok
            /\ ~IsQuotaMessage(f.msg)
            /\ last' = Outcome("failed", resp, f, NoResult, NoWrite, FALSE)
    /\ fetches' = fetches + 1
    /\ NextBatch
    /\ UNCHANGED <<coco, reference, args, run, all_hs_codes, m49_cache, iso3_cache, store,
                   r_code, p_code, chunks, baseline, gap, call, lookups>>

\* run, lines 501-506: the fetch raised and the message has "403": run returns
BatchQuotaStop ==
    /\ pc = "batch"
    /\ \E resp \in Responses(chunks[i], r_code, IntToStr(year)) :
         LET f == fetch_annual_data(r_code, p_code, Join(COMMA, chunks[i]), IntToStr(year), resp)
         IN /\ ~f.ok
            /\ IsQuotaMessage(f.msg)
            /\ last' = Outcome("quota", resp, f, NoResult, NoWrite, FALSE)
    /\ fetches' = fetches + 1
    /\ pc' = "done"
    /\ UNCHANGED <<coco, reference, args, run, all_hs_codes, m49_cache, iso3_cache, store,
                   r_code, p_code, year, chunks, i, baseline, gap, call, lookups>>

\* main is started again on the same store: JobOrchestrator() builds a new
\* converter and reads the reference catalog again
NewProcess ==
    /\ pc = "done"
    /\ run < MaxRuns
    /\ run' = run + 1
    /\ all_hs_codes' = get_valid_hs4_codes(reference)
    /\ m49_cache' = EmptyCache
    /\ iso3_cache' = EmptyCache
    /\ r_code' = <<>>
    /\ p_code' = None
    /\ year' = args.start_year
    /\ chunks' = <<>>
    /\ i' = 0
    /\ fetches' = 0
    /\ baseline' = Len(store)
    /\ gap' = NoGap
    /\ last' = NoLast
    /\ pc' = "start"
    /\ UNCHANGED <<coco, reference, args, store, call, lookups>>

Next ==
    \/ RunStart
    \/ YearSkip
    \/ YearBatches
    \/ BatchFetched
    \/ BatchFailed
    \/ BatchQuotaStop
    \/ NewProcess

Spec == Init /\ [][Next]_vars

(* ------------ the converter and the client called on their own -------- *)
\* arguments of to_m49: codes with and without a mapping, padded, the sentinels
M49Inputs == {IDN, <<32>> \o IDN \o <<32>>, CHN, XKX, WLD, ALL}

\* arguments of to_iso3: numeric codes as str, padded, '0', and None
Iso3Inputs == {M360, M156 \o <<10>>, M412, ZERO, <<32>> \o ZERO, None}

ConvInit ==
    /\ coco \in CocoTables
    /\ m49_cache = EmptyCache
    /\ iso3_cache = EmptyCache
    /\ call = NoCall
    /\ reference = Answered(NoValidIds)
    /\ args = Args(<<IDN>>, ALL, START_YEAR)
    /\ run = 1
    /\ pc = "converter"
    /\ all_hs_codes = <<>>
    /\ store = <<>>
    /\ r_code = <<>>
    /\ p_code = None
    /\ year = START_YEAR
    /\ chunks = <<>>
    /\ i = 0
    /\ fetches = 0
    /\ baseline = 0
    /\ gap = NoGap
    /\ last = NoLast
    /\ lookups = NoLookups

\* CountryCodeConverter.to_m49(x)
CallToM49 ==
    /\ pc = "converter"
    /\ \E x \in M49Inputs :
         LET r == to_m49(m49_cache, coco, Strip(x))
         IN /\ m49_cache' = r.cache
            /\ call' = [fn |-> "to_m49", arg |-> x, ret |-> r.ret, asked |-> r.asked]
            /\ lookups' = Counted(lookups, r.asked, "ISO3", Strip(x))
    /\ UNCHANGED <<coco, iso3_cache>>
    /\ UNCHANGED pipelineVars

\* CountryCodeConverter.to_iso3(x)
CallToIso3 ==
    /\ pc = "converter"
    /\ \E x \in Iso3Inputs :
         LET r == to_iso3(iso3_cache, coco, Strip(StrOf(x)))
         IN /\ iso3_cache' = r.cache
            /\ call' = [fn |-> "to_iso3", arg |-> x, ret |-> r.ret, asked |-> r.asked]
            /\ lookups' = Counted(lookups, r.asked, "UNCode", Strip(StrOf(x)))
    /\ UNCHANGED <<coco, m49_cache>>
    /\ UNCHANGED pipelineVars

\* to_iso3(to_m49(x))
RoundTrip ==
    /\ pc = "converter"
    /\ \E x \in M49Inputs :
         LET m == to_m49(m49_cache, coco, Strip(x))
             r == to_iso3(iso3_cache, coco, Strip(StrOf(m.ret)))
         IN /\ m49_cache' = m.cache
            /\ iso3_cache' = r.cache
            /\ call' = [fn |-> "roundtrip", arg |-> x, ret |-> r.ret, asked |-> m.asked \/ r.asked]
            /\ lookups' = Counted(Counted(lookups, m.asked, "ISO3", Strip(x)),
                                  r.asked, "UNCode", Strip(StrOf(m.ret)))
    /\ UNCHANGED coco
    /\ UNCHANGED pipelineVars

\* the partner argument of fetch_annual_data: 'ALL' in three letter cases, '',
\* None, a numeric code and the library's 'not found'
PartnerInputs == {ALL, <<97, 108, 108>>, <<65, 108, 108>>, <<>>, None, M156, NOT_FOUND}

\* ComtradeClient.fetch_annual_data(['360'], partner, '0101', '2023') up to the
\* request it sends: ret is the query string
CallFetch ==
    /\ pc = "converter"
    /\ \E partner \in PartnerInputs :
         call' = [fn |-> "fetch_annual_data", arg |-> partner,
                  ret |-> Query(<<M360>>, partner, HS(101), IntToStr(START_YEAR)),
                  asked |-> FALSE]
    /\ UNCHANGED <<coco, m49_cache, iso3_cache, lookups>>
    /\ UNCHANGED pipelineVars

ConvNext ==
    \/ CallToM49
    \/ CallToIso3
    \/ RoundTrip
    \/ CallFetch

ConvSpec == ConvInit /\ [][ConvNext]_vars

(* ----------------- the processor called on its own --------------------- *)
\* the record without the key f
Without(raw_item, f) == [g \in DOMAIN raw_item \ {f} |-> raw_item[g]]

\* a record of the API with every field present
GoodRecord ==
    [reporterCode |-> 360, partnerCode |-> 156, refYear |-> START_YEAR, cmdCode |-> HS(101),
     classificationCode |-> H6, flowCode |-> FLOW_M,
     qty |-> JNum(Finite(10, 0)), primaryValue |-> JNum(Finite(425, 1)), netWgt |-> JNull]

\* the fields the data model calls identity fields, by their API names
IdentityFields == {"reporterCode", "partnerCode", "refYear", "flowCode", "classificationCode"}

\* values of qty, primaryValue and netWgt: null, '', 'n/a', 'NaN', ' NULL ', '42.5',
\* '-7.90', 'abc', 'inf', '1e999', the numbers 3.9 and NaN, and an array
NumericInputs ==
    {JNull, JStr(<<>>), JStr(<<110, 47, 97>>), JStr(<<78, 97, 78>>),
     JStr(<<32, 78, 85, 76, 76, 32>>), JStr(<<52, 50, 46, 53>>),
     JStr(<<45, 55, 46, 57, 48>>), JStr(<<97, 98, 99>>), JStr(<<105, 110, 102>>),
     JStr(<<49, 101, 57, 57, 57>>), JNum(Finite(39, 1)), JNum(NaN), JList}

\* reporter and partner codes: World, two mapped codes, two the reference does not know
CodeInputs == {0, 156, 360, 412, 999}

RawRecords ==
    {GoodRecord, [f \in {} |-> 0], [GoodRecord EXCEPT !.cmdCode = NotAStr]}
    \cup {Without(GoodRecord, f) : f \in DOMAIN GoodRecord}
    \cup {[GoodRecord EXCEPT ![f] = v] : f \in NumericFields, v \in NumericInputs}
    \cup {[GoodRecord EXCEPT !.reporterCode = c] : c \in CodeInputs}
    \cup {[GoodRecord EXCEPT !.partnerCode = c] : c \in CodeInputs}

\* raw_data_list: nothing, one record, or a record followed by a good one
RawBatches ==
    {<<>>} \cup {<<r>> : r \in RawRecords} \cup {<<r, GoodRecord>> : r \in RawRecords}

IngestInit ==
    /\ coco \in CocoTables
    /\ m49_cache = EmptyCache
    /\ iso3_cache = EmptyCache
    /\ call = NoCall
    /\ reference = Answered(NoValidIds)
    /\ args = Args(<<IDN>>, ALL, START_YEAR)
    /\ run = 0
    /\ pc = "processor"
    /\ all_hs_codes = <<>>
    /\ store = <<>>
    /\ r_code = <<>>
    /\ p_code = None
    /\ year = START_YEAR
    /\ chunks = <<>>
    /\ i = 0
    /\ fetches = 0
    /\ baseline = 0
    /\ gap = NoGap
    /\ last = NoLast
    /\ lookups = NoLookups

\* TradeBatchProcessor.process(raw_data_list); run counts the calls
ProcessBatch ==
    /\ pc = "processor"
    /\ run < MaxBatches
    /\ \E raw_data_list \in RawBatches :
         \E w \in DbChoices(Len(store), Len(batch_payload(raw_data_list, iso3_cache, coco).payload)) :
            LET res == process(raw_data_list, store, iso3_cache, coco, w.db, w.written)
            IN /\ store' = res.store
               /\ iso3_cache' = res.cache
               /\ last' = [kind |-> "processed", raw |-> raw_data_list, total |-> res.total,
                           success |-> res.success, payload |-> res.payload,
                           db |-> w.db, written |-> w.written, before |-> store]
    /\ run' = run + 1
    /\ UNCHANGED <<coco, reference, args, pc, all_hs_codes, m49_cache, r_code, p_code, year,
                   chunks, i, fetches, baseline, gap, call, lookups>>

IngestNext == ProcessBatch

IngestSpec == IngestInit /\ [][IngestNext]_vars

(* ------------------------------ properties ----------------------------- *)
\* the codes of the catalog
Catalog == {all_hs_codes[k] : k \in 1..Len(all_hs_codes)}

\* the ISO3 codes run was asked for
ReporterIsos == {Strip(args.reporters_iso[k]) : k \in 1..Len(args.reporters_iso)}

\* the commodity codes the rows hold for the run's reporters and year y
Persisted(rows, y) ==
    {rows[k].hscode : k \in {j \in 1..Len(rows) : /\ rows[j].kode_alpha3_reporter \in ReporterIsos
                                                  /\ rows[j].tahun = y}}

\* the latest batch's fetch got this HTTP status
GotStatus(status) ==
    /\ last.kind # "none"
    /\ last.resp.kind = "http"
    /\ last.resp.status = status

\* C1: when the run before this one left a record of every catalog code for
\* every year and reporter of the run in the store, this run (same reporters,
\* years and catalog) issues no fetch.
C1_Idempotence ==
    (/\ run = 2
     /\ Catalog # {}
     /\ \A y \in args.start_year..args.end_year :
            Catalog \subseteq Persisted(SubSeq(store, 1, baseline), y))
    => fetches = 0

\* C2: when gap detection has just run for a year and the store answered, the
\* gap is the catalog minus the commodity codes persisted for the run's
\* reporter and that year, sorted ascending.
C2_GapCorrectness ==
    (pc = "batch" /\ i = 1 /\ gap.queryOk)
    => gap.target = Sorted(Catalog \ Persisted(store, year))

\* C3: once a batch fetch of a run got HTTP 403, no step of that run issues
\* another fetch.
C3_QuotaShortCircuit == [][GotStatus(403) => fetches' <= fetches]_vars

\* a 403 stopped the run while a later batch or a later year was still to come
C3_Witness ==
    /\ GotStatus(403)
    /\ pc = "done"
    /\ (last.batch < last.of \/ last.year < args.end_year)

\* C4: when the bulk write of a batch's validated records is rejected, the
\* store holds none of them (it is what it was before the batch) and process
\* reports success = 0.
C4_BatchAtomicity ==
    (last.kind = "fetched" /\ last.db = "reject")
    => (Len(store) = last.before /\ last.success = 0)

\* a write of validated records was rejected after some rows had been written
C4_Witness ==
    /\ last.kind = "fetched"
    /\ last.db = "reject"
    /\ last.written >= 1
    /\ Len(store) = last.before

\* C5: every step leaves the committed rows in place and unchanged: the store
\* before the step is a prefix of the store after it.
C5_CheckpointMonotonic ==
    [][Len(store') >= Len(store) /\ SubSeq(store', 1, Len(store)) = store]_vars

\* a batch failed (fetch error, quota stop or rejected write) after this run
\* had committed rows, and those rows are still there
C5_Witness ==
    /\ last.kind # "none"
    /\ (last.kind \in {"failed", "quota"} \/ last.db = "reject")
    /\ last.before > baseline
    /\ Len(store) = last.before

\* C6: once a batch fetch of a run got HTTP 401, no step of that run issues
\* another fetch.
C6_AuthFatal == [][GotStatus(401) => fetches' <= fetches]_vars

\* the latest batch's fetch failed for a reason other than 403 and 401
NonFatalFailure ==
    /\ last.kind # "none"
    /\ ~last.ok
    /\ ~(last.resp.kind = "http" /\ last.resp.status \in {401, 403})

\* C7: after a batch whose fetch failed for a reason other than 403 and 401,
\* the batch has zero successes and, when it was not the year's last batch,
\* run is about to fetch the next batch of the same year.
C7_NonFatalContinues ==
    NonFatalFailure
    => /\ last.success = 0
       /\ last.batch < last.of => (pc = "batch" /\ i = last.batch + 1 /\ year = last.year)

\* C8: a fetch with status 200 and a JSON body returns the body's data array
\* (empty when data is absent) exactly when the body has no non-empty error
\* field; with a non-empty error field it raises the wrapped API error and
\* nothing of the response is processed or stored.
C8_EmbeddedError ==
    (last.kind # "none" /\ last.resp.kind = "http" /\ last.resp.status = 200 /\ last.resp.json = "ok")
    => LET hasErr == last.resp.hasError /\ last.resp.error # <<>>
       IN /\ last.ok <=> ~hasErr
          /\ ~hasErr => last.ret = (IF last.resp.hasData THEN last.resp.data ELSE <<>>)
          /\ hasErr => /\ last.msg = MSG_API \o last.resp.error
                       /\ last.total = 0
                       /\ last.payload = <<>>
                       /\ Len(store) = last.before

\* a 200 body carrying both an error message and records was refused
C8_Witness ==
    /\ last.kind # "none"
    /\ last.resp.kind = "http"
    /\ last.resp.status = 200
    /\ last.resp.error # <<>>
    /\ last.resp.data # <<>>
    /\ ~last.ok

\* C9: to_m49 of 'WLD' returns '0' and to_iso3 of '0' returns 'WLD', neither
\* consulting the reference.
C9_WorldSentinel ==
    /\ (call.fn = "to_m49" /\ Strip(call.arg) = WLD) => (call.ret = ZERO /\ ~call.asked)
    /\ (call.fn = "to_iso3" /\ Strip(StrOf(call.arg)) = ZERO) => (call.ret = WLD /\ ~call.asked)

\* C10: to_iso3(to_m49(x)) = x for every x the reference maps one-to-one,
\* whatever calls came before.
C10_RoundTrip ==
    (call.fn = "roundtrip" /\ ValidMapping(coco, call.arg)) => call.ret = call.arg

\* a round trip of a mapped code ran on caches earlier calls had filled
C10_Witness ==
    /\ call.fn = "roundtrip"
    /\ ValidMapping(coco, call.arg)
    /\ call.ret = call.arg
    /\ ~call.asked
    /\ Cardinality(DOMAIN iso3_cache) > 1

\* every key was looked up in the reference at most once per direction
LookedUpOnce == \A k \in DOMAIN lookups : lookups[k] <= 1

\* a lookup that failed left its failure value in the cache: None for to_m49,
\* the key itself for to_iso3
FailureCached ==
    /\ \A k \in DOMAIN m49_cache : convert(coco, k, "ISO3") = Raises => m49_cache[k] = None
    /\ \A k \in DOMAIN iso3_cache :
         (k # ZERO /\ (convert(coco, k, "UNCode") = Raises \/ Len(convert(coco, k, "UNCode")) > 3))
         => iso3_cache[k] = k
    /\ \A k \in DOMAIN lookups :
         IF k[1] = "ISO3" THEN k[2] \in DOMAIN m49_cache ELSE k[2] \in DOMAIN iso3_cache

\* a call whose key is in the cache returns the cached value, asks nothing and
\* leaves the caches as they are
CachedAnswer ==
    /\ (call'.fn = "to_m49" /\ Strip(call'.arg) \in DOMAIN m49_cache)
       => /\ call'.ret = m49_cache[Strip(call'.arg)]
          /\ ~call'.asked
          /\ lookups' = lookups
          /\ m49_cache' = m49_cache
    /\ (call'.fn = "to_iso3" /\ Strip(StrOf(call'.arg)) \in DOMAIN iso3_cache)
       => /\ call'.ret = iso3_cache[Strip(StrOf(call'.arg))]
          /\ ~call'.asked
          /\ lookups' = lookups
          /\ iso3_cache' = iso3_cache

\* C11: over any sequence of to_m49 and to_iso3 calls the reference is
\* consulted at most once per stripped key and direction; a failed lookup is
\* cached (None for to_m49, the key for to_iso3) and a later call with a cached
\* key returns the cached value without consulting the reference.
C11_CacheNeverRequeries == [](LookedUpOnce /\ FailureCached) /\ [][CachedAnswer]_vars

\* a key whose lookup raised was asked for again and answered from the cache
C11_Witness ==
    /\ call.fn = "to_m49"
    /\ convert(coco, Strip(call.arg), "ISO3") = Raises
    /\ call.ret = None
    /\ ~call.asked
    /\ lookups[<<"ISO3", Strip(call.arg)>>] = 1

\* the records of raw_data_list that have every identity field
Complete(raw_data_list) ==
    {k \in 1..Len(raw_data_list) : IdentityFields \subseteq DOMAIN raw_data_list[k]}

\* raw_item is the good record with some of its identity fields left out
LacksIdentity(raw_item) ==
    /\ ~(IdentityFields \subseteq DOMAIN raw_item)
    /\ DOMAIN GoodRecord \ IdentityFields \subseteq DOMAIN raw_item
    /\ \A f \in DOMAIN raw_item : raw_item[f] = GoodRecord[f]

\* the row has the values that the defaults of the absent fields lead to
DefaultsFilled(raw_item, row) ==
    /\ "reporterCode" \notin DOMAIN raw_item => row.kode_alpha3_reporter = WLD
    /\ "partnerCode" \notin DOMAIN raw_item => row.kode_alpha3_partner = WLD
    /\ "refYear" \notin DOMAIN raw_item => row.tahun = 0
    /\ "flowCode" \notin DOMAIN raw_item => row.status = EXPORT
    /\ "classificationCode" \notin DOMAIN raw_item => row.id_sektor = None

NumericVariant(raw_item) ==
    /\ DOMAIN GoodRecord \ NumericFields \subseteq DOMAIN raw_item
    /\ \A f \in DOMAIN raw_item \ NumericFields : raw_item[f] = GoodRecord[f]

\* what normalization is to make of the numeric field f of raw_item: 0.0 for
\* an absent or null value, an empty string, 'null', 'n/a', 'nan' in any case
\* and a string that is no number; the number otherwise
Normalized(raw_item, f) ==
    IF f \notin DOMAIN raw_item THEN ZeroFloat
    ELSE LET v == raw_item[f]
         IN IF v.t = "str"
            THEN IF Lower(Strip(v.s)) \in {<<>>, NULL_TEXT, NA_TEXT, NAN_TEXT} \/ ~FloatOfStr(v.s).ok
                 THEN ZeroFloat ELSE FloatOfStr(v.s).val
            ELSE IF v.t = "num" THEN v.x
            ELSE ZeroFloat

\* C13: for qty, primaryValue and netWgt normalization yields 0.0 for an absent
\* or null value, an empty string, 'null' / 'n/a' / 'nan' in any letter case and
\* a string that does not parse as a number, and the parsed number otherwise;
\* no value of a numeric field makes an otherwise valid record be rejected.
C13_NumericSanitization ==
    (last.kind = "processed" /\ Len(last.raw) = 1 /\ NumericVariant(last.raw[1])) =>
        /\ Len(last.payload) = 1
        /\ last.payload[1].nilai = Normalized(last.raw[1], "primaryValue")
        /\ last.payload[1].berat_bersih = Normalized(last.raw[1], "netWgt")
        /\ IntOfFloat(Normalized(last.raw[1], "qty")) = [ok |-> TRUE, val |-> last.payload[1].vol]

\* a 3-letter ISO3 string, the World sentinel 'WLD' among them
IsIso3(code) == Len(code) = 3 /\ \A k \in 1..3 : code[k] \in 65..90

\* C14: in every reachable store state the reporter code and the partner code
\* of every persisted record are a 3-letter ISO3 string or 'WLD', whatever raw
\* code the API returned and whatever the reference lookup did.
C14_PersistedCountryCodes ==
    \A k \in 1..Len(store) :
        /\ IsIso3(store[k].kode_alpha3_reporter)
        /\ IsIso3(store[k].kode_alpha3_partner)

\* C15: when the reference endpoint answers, the catalog is exactly the set of
\* result ids that are purely numeric and exactly 4 digits long; when it fails,
\* the catalog is all 4-digit numeric strings '0000'..'9999', codes with
\* leading zeros such as '0101' included.
C15_ReferenceCatalog ==
    pc \notin {"converter", "processor"} =>
        Catalog = IF reference.ok
                  THEN {reference.results[k] : k \in {j \in 1..Len(reference.results) :
                            IsDigitStr(reference.results[j]) /\ Len(reference.results[j]) = 4}}
                  ELSE {HS(n) : n \in 0..9999}

\* the records of raw_data_list that normalize
Normalizing(raw_data_list) ==
    {k \in 1..Len(raw_data_list) : transform(raw_data_list[k], EmptyCache, coco).some}

\* C16: process returns total = the number of raw records and success = the
\* number of records that normalized when the one bulk write commits, 0 when
\* the write fails or nothing normalized, so success <= total; a record that
\* fails normalization does not keep the others of its batch from being
\* written.
C16_IngestResult ==
    last.kind = "processed" =>
        /\ last.total = Len(last.raw)
        /\ Len(last.payload) = Cardinality(Normalizing(last.raw))
        /\ last.success = IF last.db = "commit" THEN Cardinality(Normalizing(last.raw)) ELSE 0
        /\ last.success <= last.total
        /\ last.db = "commit" <=> store # last.before
        /\ last.db = "commit" => store = last.before \o last.payload
        /\ Normalizing(last.raw) = {} => last.db = "none"

\* a record that does not normalize came first and the good one was written
C16_Witness ==
    /\ last.kind = "processed"
    /\ last.raw = <<[GoodRecord EXCEPT !.cmdCode = NotAStr], GoodRecord>>
    /\ last.db = "commit"
    /\ last.total = 2
    /\ last.success = 1
    /\ Len(store) = 1
    /\ store[1].hscode = HS(101)

\* the codes of the batches, in the order of the batches
RECURSIVE Flatten(_)
Flatten(batches) == IF batches = <<>> THEN <<>> ELSE Head(batches) \o Flatten(Tail(batches))

\* C17: when the query for the existing codes fails, the existing set is empty
\* and run goes on: the gap is the whole catalog and every code of the catalog
\* is in the batches submitted for fetching.
C17_QueryFailure ==
    (gap # NoGap /\ ~gap.queryOk) =>
        /\ gap.existing = {}
        /\ gap.target = Sorted(Catalog)
        /\ (gap.year = year /\ Catalog # {}) => pc \in {"batch", "done"}
        /\ (gap.year = year /\ pc = "batch") => Flatten(chunks) = Sorted(Catalog)

\* the query failed on a store that holds rows and the whole catalog is queued
C17_Witness ==
    /\ gap # NoGap
    /\ ~gap.queryOk
    /\ store # <<>>
    /\ pc = "batch"
    /\ i = 1
    /\ Flatten(chunks) = Sorted(Catalog)
    /\ Len(chunks) = 2

\* to_m49 on 'ALL' returns 'ALL', asks the reference nothing and leaves both
\* caches as they are
AllUntouched ==
    (call'.fn = "to_m49" /\ Strip(call'.arg) = ALL) =>
        /\ call'.ret = ALL
        /\ ~call'.asked
        /\ lookups' = lookups
        /\ m49_cache' = m49_cache
        /\ iso3_cache' = iso3_cache

\* a fetch whose partner is 'ALL' in any letter case, '' or None has no
\* partnerCode in its query string
FetchOmitsPartner ==
    (call.fn = "fetch_annual_data" /\ (call.arg \in {None, <<>>} \/ Upper(call.arg) = ALL)) =>
        ~Contains(call.ret, <<112, 97, 114, 116, 110, 101, 114, 67, 111, 100, 101>>)

\* C18: to_m49('ALL') returns 'ALL' without consulting the reference and
\* without changing either cache, and a fetch whose partner is 'ALL' (in any
\* letter case) or empty sends no partnerCode parameter.
C18_AllNeverParticipates ==
    [](FetchOmitsPartner /\ ALL \notin DOMAIN m49_cache) /\ [][AllUntouched]_vars

\* a fetch with partner 'all' went out without partnerCode, after to_m49 had
\* filled its cache
C18_Witness ==
    /\ call.fn = "fetch_annual_data"
    /\ call.arg = <<97, 108, 108>>
    /\ ~Contains(call.ret, <<112, 97, 114, 116, 110, 101, 114, 67, 111, 100, 101>>)
    /\ m49_cache # EmptyCache

\* the batches are consecutive slices of the ascending gap: none empty, none
\* longer than the batch size, all but the last of the batch size
Batching ==
    pc = "batch" =>
        /\ gap.year = year
        /\ gap.target # <<>>
        /\ \A k \in 1..(Len(gap.target) - 1) : StrLess(gap.target[k], gap.target[k + 1])
        /\ Flatten(chunks) = gap.target
        /\ \A k \in 1..Len(chunks) :
             /\ Len(chunks[k]) \in 1..BATCH_SIZE
             /\ k < Len(chunks) => Len(chunks[k]) = BATCH_SIZE
        /\ i \in 1..Len(chunks)

\* the claim's example: catalog 0101, 0102, 0103, existing 0101, batch size 2
BatchingExample ==
    Chunks(target_hs(<<HS(101), HS(102), HS(103)>>, {HS(101)}), 2) = <<<<HS(102), HS(103)>>>>

\* a fetch is for the batch after the one fetched before it, or for the first
\* batch of a later year once the earlier year's batches are through
FetchedInOrder ==
    fetches' = fetches + 1 =>
        /\ pc = "batch"
        /\ last'.year = year
        /\ last'.batch = i
        /\ IF last.kind = "none" \/ last.year < year
           THEN i = 1 /\ (last.kind # "none" => last.batch = last.of)
           ELSE last.year = year /\ i = last.batch + 1

\* a step that finds the gap empty fetches nothing and leaves the year
SkippedYear ==
    (gap' # gap /\ gap'.target = <<>> /\ pc = "year") =>
        /\ fetches' = fetches
        /\ year' = year + 1
        /\ pc' # "batch"

\* C19: when the gap of a year is empty the year is skipped with zero fetches;
\* otherwise its batches are consecutive slices of the ascending gap, each with
\* at least one and at most BATCH_SIZE codes and all but the last with exactly
\* BATCH_SIZE, every missing code in exactly one batch, and the batches are
\* fetched one after the other in order, each at most once in a run.
C19_Batching == [](Batching /\ BatchingExample) /\ [][FetchedInOrder /\ SkippedYear]_vars

\* the second of two batches, a full one and a rest of one code, was fetched
C19_Witness ==
    /\ last.kind = "fetched"
    /\ last.batch = 2
    /\ last.of = 2
    /\ Len(chunks) = 2
    /\ Len(chunks[1]) = BATCH_SIZE
    /\ Len(chunks[2]) = 1
    /\ fetches = 2

\* C20: after each batch is fetched and handled run pauses the fixed delay
\* before the next fetch, so between any two consecutive fetches the pause
\* has occurred, whether the earlier batch succeeded or failed.
C20_Pacing == [][(fetches' = fetches + 1 /\ last.kind # "none") => last.slept]_vars

====
